---- MODULE Spec2Model ----
(***************************************************************************)
(* Model of CGM Data Analysis/output_graph.py: the two statistics          *)
(* functions, the day colouring of the plotter, and the batch driver.      *)
(*                                                                         *)
(* Numbers are exact rationals [nan, num, den]; NaN is pandas' missing     *)
(* value, for which every comparison is false.  Floating-point rounding    *)
(* is not modelled.  The mean is modelled, std_dev / cv_percent are not    *)
(* (they need a square root and no property below reads them).             *)
(***************************************************************************)
EXTENDS Integers, Sequences, FiniteSets, TLC

VARIABLES
    data,          \* the DataFrame handed to a statistics function
    low_range,     \* calculate_glucose_analysis argument
    high_range,    \* calculate_glucose_analysis argument
    result,        \* what the statistics function returned (or raised)
    cpc,           \* position of the statistics call: "call" / "returned" / "idle"
    nDays,         \* len(unique_days) of the series being plotted
    plotted,       \* the (day, color) lines drawn so far by the loop over day_color_map
    disk,          \* batch index -> Missing / Corrupt / the CSV table
    outdir,        \* the output directory: exists flag and file name -> content
    pc,            \* position of the driver script
    bi,            \* index into batch_files of the outer loop
    df,            \* the batch table loaded by pd.read_csv
    participants,  \* df['participant_id'].unique()
    pidx,          \* index into participants of the inner loop
    figs,          \* number of pyplot figures open in the process
    calls,         \* the function calls made by the driver, in order
    printed,       \* the completion line was printed
    run,           \* which execution of the script this is
    error          \* the exception that propagated out of the script, or "none"

vars == <<data, low_range, high_range, result, cpc, nDays, plotted, disk,
          outdir, pc, bi, df, participants, pidx, figs, calls, printed, run,
          error>>

calcVars == <<data, low_range, high_range, result, cpc>>
colorVars == <<nDays, plotted>>
driverVars == <<disk, outdir, pc, bi, df, participants, pidx, figs, calls, printed,
                run, error>>

-----------------------------------------------------------------------------
(* Bounds of the model *)

\* longest series handed to calculate_glucose_analysis
MaxLen == 5
\* longest series handed to calculate_glucose_ranges
MaxSeries == 4
\* largest number of distinct calendar dates of a plotted series
MaxDays == 22
\* largest number of batch files present on disk
MaxExisting == 2
\* how many times the script is executed on the same input
MaxRuns == 2

-----------------------------------------------------------------------------
(* Floating-point values as exact rationals, with NaN *)

Frac(n, d) == [nan |-> FALSE, num |-> n, den |-> d]
Num(n) == Frac(n, 1)
NaN == [nan |-> TRUE, num |-> 0, den |-> 1]

\* IEEE comparisons: false as soon as one side is NaN
Lt(a, b) == ~a.nan /\ ~b.nan /\ a.num * b.den < b.num * a.den
Le(a, b) == ~a.nan /\ ~b.nan /\ a.num * b.den <= b.num * a.den
Gt(a, b) == Lt(b, a)
Ge(a, b) == Le(b, a)
EqF(a, b) == ~a.nan /\ ~b.nan /\ a.num * b.den = b.num * a.den

-----------------------------------------------------------------------------
(* DataFrames: sequences of rows *)

Reading(pid, ts, bg, grp) ==
    [participant_id |-> pid, timestamp |-> ts,
     blood_glucose_value |-> bg, study_group |-> grp]

\* data[column] as a sequence
Column(d, c) == [i \in 1..Len(d) |-> d[i][c]]

\* the non-missing entries of a column, in row order (pandas skipna)
RECURSIVE DropNa(_)
DropNa(s) ==
    IF s = <<>> THEN <<>>
    ELSE IF Head(s).nan THEN DropNa(Tail(s))
    ELSE <<Head(s)>> \o DropNa(Tail(s))

RECURSIVE SumNum(_)
SumNum(s) == IF s = <<>> THEN 0 ELSE Head(s).num + SumNum(Tail(s))

\* Series.mean(): NaN skipped, NaN for no values (glucose values are integral)
Mean(s) ==
    LET v == DropNa(s)
    IN  IF Len(v) = 0 THEN NaN ELSE Frac(SumNum(v), Len(v))

\* Series.min() / Series.max(): NaN skipped, NaN for no values
SeriesMin(s) ==
    LET v == DropNa(s)
    IN  IF Len(v) = 0 THEN NaN
        ELSE CHOOSE x \in {v[i] : i \in 1..Len(v)} :
                 \A j \in 1..Len(v) : Le(x, v[j])

SeriesMax(s) ==
    LET v == DropNa(s)
    IN  IF Len(v) = 0 THEN NaN
        ELSE CHOOSE x \in {v[i] : i \in 1..Len(v)} :
                 \A j \in 1..Len(v) : Ge(x, v[j])

\* Series.quantile(qn/qd), interpolation 'linear': NaN skipped, the values
\* sorted, position (n-1)*q, linear interpolation between its two neighbours
Quantile(s, qn, qd) ==
    LET v == SortSeq(DropNa(s), LAMBDA a, b : Lt(a, b))
        n == Len(v)
        pos == (n - 1) * qn
        i == pos \div qd
        rem == pos % qd
        lo == v[i + 1].num
        hi == v[IF i + 2 <= n THEN i + 2 ELSE n].num
    IN  IF n = 0 THEN NaN ELSE Frac(lo * qd + (hi - lo) * rem, qd)

-----------------------------------------------------------------------------
(* calculate_glucose_ranges *)

\* the two percentiles exchanged
calculate_glucose_ranges_Swapped(d) ==
    LET bg == Column(d, "blood_glucose_value")
    IN  [raised |-> "none",
         low_value |-> Quantile(bg, 95, 100),
         high_value |-> Quantile(bg, 5, 100),
         bg_min |-> SeriesMin(bg),
         bg_max |-> SeriesMax(bg)]

calculate_glucose_ranges(d) ==
    LET bg == Column(d, "blood_glucose_value")
    IN  [raised |-> "none",
         low_value |-> Quantile(bg, 5, 100),
         high_value |-> Quantile(bg, 95, 100),
         bg_min |-> SeriesMin(bg),
         bg_max |-> SeriesMax(bg)]

-----------------------------------------------------------------------------
(* calculate_glucose_analysis *)

\* the three row filters of lines 23-25
\* both boundaries excluded from the range
InRangeRow_Exclusive(v, lo, hi) == Gt(v, Num(lo)) /\ Lt(v, Num(hi))
InRangeRow(v, lo, hi) == Ge(v, Num(lo)) /\ Le(v, Num(hi))
\* the upper boundary counted as above range
AboveRangeRow_Inclusive(v, lo, hi) == Ge(v, Num(hi))
AboveRangeRow(v, lo, hi) == Gt(v, Num(hi))
BelowRangeRow(v, lo, hi) == Lt(v, Num(lo))

\* len(data[filter])
InRangeCount(bg, lo, hi) == Cardinality({i \in 1..Len(bg) : InRangeRow(bg[i], lo, hi)})
AboveRangeCount(bg, lo, hi) == Cardinality({i \in 1..Len(bg) : AboveRangeRow(bg[i], lo, hi)})
BelowRangeCount(bg, lo, hi) == Cardinality({i \in 1..Len(bg) : BelowRangeRow(bg[i], lo, hi)})

\* count / len(data) * 100
Percent(count, n) == Frac(count * 100, n)

NoResult == [raised |-> "pending"]

calculate_glucose_analysis(d, lo, hi) ==
    LET bg == Column(d, "blood_glucose_value")
    IN  IF Len(d) = 0
        THEN [raised |-> "ZeroDivisionError"]
        ELSE [raised |-> "none",
              mean_blood_glucose |-> Mean(bg),
              tir_percent |-> Percent(InRangeCount(bg, lo, hi), Len(d)),
              tar_percent |-> Percent(AboveRangeCount(bg, lo, hi), Len(d)),
              tbr_percent |-> Percent(BelowRangeCount(bg, lo, hi), Len(d))]

-----------------------------------------------------------------------------
(* Day colours of plot_and_save_graph *)

\* the number of entries of matplotlib's tab20 ListedColormap
PaletteSize == 20

\* np.linspace(0, 1, n)[k-1]
Linspace(n, k) == IF n = 1 THEN Num(0) ELSE Frac(k - 1, n - 1)

\* plt.cm.tab20(x) for a float x in [0, 1]: entry int(x * N), and N - 1 for
\* x = 1.  The result is the index of the palette entry; the 20 entries of
\* tab20 are 20 different RGBA values.
tab20(x) ==
    LET xa == (x.num * PaletteSize) \div x.den
    IN  IF xa = PaletteSize THEN PaletteSize - 1 ELSE xa

\* colors[k-1] of line 41
DayColor(n, k) == tab20(Linspace(n, k))

-----------------------------------------------------------------------------
(* Values the inputs are drawn from *)

IntId(n) == [kind |-> "int", v |-> n]
FloatId(n) == [kind |-> "float", v |-> n]
NaNId == [kind |-> "nan", v |-> 0]

Timestamp(day) == [ok |-> TRUE, day |-> day]
BadTimestamp == [ok |-> FALSE, day |-> 0]

GlucoseValues == {NaN, Num(50), Num(70), Num(90), Num(140), Num(160)}

\* (low_range, high_range): the defaults, equal bounds, inverted bounds
RangeArgs == {<<70, 140>>, <<140, 140>>, <<140, 70>>}

\* one participant's rows with the glucose values bg
SeriesOf(bg) ==
    [i \in 1..Len(bg) |-> Reading(IntId(1), Timestamp(1), bg[i], "healthy")]

\* d is a series of at most maxLen rows with glucose values of GlucoseValues
IsGlucoseSeries(d, maxLen) ==
    \E k \in 0..maxLen : \E bg \in [1..k -> GlucoseValues] : d = SeriesOf(bg)

NoTable == <<>>

IdleCalc ==
    /\ data = NoTable
    /\ low_range = 70
    /\ high_range = 140
    /\ result = NoResult
    /\ cpc = "idle"

IdleColors ==
    /\ nDays = 0
    /\ plotted = <<>>

IdleDriver ==
    /\ disk = <<>>
    /\ outdir = [exists |-> FALSE, files |-> <<>>]
    /\ pc = "idle"
    /\ bi = 0
    /\ df = NoTable
    /\ participants = <<>>
    /\ pidx = 0
    /\ figs = 0
    /\ calls = <<>>
    /\ printed = FALSE
    /\ run = 0
    /\ error = "none"

-----------------------------------------------------------------------------
(* SpecAnalysis: calculate_glucose_analysis applied to a series *)

InitAnalysis ==
    /\ IsGlucoseSeries(data, MaxLen)
    /\ \E args \in RangeArgs : low_range = args[1] /\ high_range = args[2]
    /\ result = NoResult
    /\ cpc = "call"
    /\ IdleColors
    /\ IdleDriver

CallAnalysis ==
    /\ cpc = "call"
    /\ result' = calculate_glucose_analysis(data, low_range, high_range)
    /\ cpc' = "returned"
    /\ UNCHANGED <<data, low_range, high_range, colorVars, driverVars>>

NextAnalysis == CallAnalysis

SpecAnalysis == InitAnalysis /\ [][NextAnalysis]_vars

-----------------------------------------------------------------------------
(* SpecRanges: calculate_glucose_ranges applied to a series *)

InitRanges ==
    /\ IsGlucoseSeries(data, MaxSeries)
    /\ low_range = 70
    /\ high_range = 140
    /\ result = NoResult
    /\ cpc = "call"
    /\ IdleColors
    /\ IdleDriver

CallRanges ==
    /\ cpc = "call"
    /\ result' = calculate_glucose_ranges(data)
    /\ cpc' = "returned"
    /\ UNCHANGED <<data, low_range, high_range, colorVars, driverVars>>

NextRanges == CallRanges

SpecRanges == InitRanges /\ [][NextRanges]_vars

-----------------------------------------------------------------------------
(* SpecColors: the colour of each day's line, lines 40-42 and 50-52 *)

InitColors ==
    /\ nDays \in 0..MaxDays
    /\ plotted = <<>>
    /\ IdleCalc
    /\ IdleDriver

\* one iteration of `for day, color in day_color_map.items()`
PlotDay ==
    /\ Len(plotted) < nDays
    /\ plotted' = Append(plotted, [day |-> Len(plotted) + 1,
                                   color |-> DayColor(nDays, Len(plotted) + 1)])
    /\ UNCHANGED <<nDays, calcVars, driverVars>>

NextColors == PlotDay

SpecColors == InitColors /\ [][NextColors]_vars

-----------------------------------------------------------------------------
(* Spec: the batch driver, lines 83-111 *)

indices == <<0, 100, 200, 300, 400, 500, 600, 700, 784>>

\* batch_files[i] is cleaned_data/batch_<start>_<end>.csv
batch_files == [i \in 1..(Len(indices) - 1) |-> <<indices[i], indices[i + 1]>>]

BatchPaths == {batch_files[i] : i \in 1..Len(batch_files)}

MissingFile == [state |-> "missing", table |-> NoTable]
\* a file pd.read_csv cannot parse
CorruptFile == [state |-> "corrupt", table |-> NoTable]
CsvFile(t) == [state |-> "table", table |-> t]

Row(pid, day, bg) == Reading(pid, Timestamp(day), Num(bg), "healthy")

\* The CSV tables a batch file is drawn from:
\* no rows; two participants with interleaved rows; the same two participants
\* first seen in descending id order; a row whose participant_id is missing;
\* a row whose timestamp does not parse.
TableEmpty == <<>>
TableInterleaved == <<Row(IntId(1), 1, 60), Row(IntId(2), 1, 150), Row(IntId(1), 2, 100)>>
TableDescending == <<Row(IntId(2), 1, 90), Row(IntId(1), 1, 120)>>
TableMissingId == <<Row(IntId(1), 1, 80), Row(NaNId, 1, 130)>>
TableBadTimestamp ==
    <<Reading(IntId(3), BadTimestamp, Num(80), "healthy")>>

Tables == {TableEmpty, TableInterleaved, TableDescending, TableMissingId,
           TableBadTimestamp}

ExistingFiles == {CorruptFile} \cup {CsvFile(t) : t \in Tables}

Existing(d) == {p \in DOMAIN d : d[p].state # "missing"}

\* the contents of cleaned_data/: at most MaxExisting of the batch files exist
Disks ==
    UNION {{[p \in BatchPaths |-> IF p \in S THEN f[p] ELSE MissingFile] :
                f \in [S -> ExistingFiles]} :
             S \in {T \in SUBSET BatchPaths : Cardinality(T) <= MaxExisting}}

\* os.path.exists(batch_path)
path_exists(p) == disk[p].state # "missing"

\* pd.read_csv: an integer column with a missing cell is read as float64
read_csv(t) ==
    IF \E i \in 1..Len(t) : t[i].participant_id.kind = "nan"
    THEN [i \in 1..Len(t) |->
            [t[i] EXCEPT !.participant_id =
                IF @.kind = "nan" THEN NaNId ELSE FloatId(@.v)]]
    ELSE t

\* Series.unique(): the distinct values in order of first appearance, a
\* missing value included (once)
RECURSIVE UniqueFrom(_, _)
UniqueFrom(s, seen) ==
    IF s = <<>> THEN <<>>
    ELSE IF Head(s) \in seen THEN UniqueFrom(Tail(s), seen)
    ELSE <<Head(s)>> \o UniqueFrom(Tail(s), seen \cup {Head(s)})

\* the distinct values in ascending order (what np.unique returns)
uniqueSorted(s) ==
    SortSeq(UniqueFrom(s, {}), LAMBDA a, b : a.kind # "nan" /\ (b.kind = "nan" \/ a.v < b.v))

unique(s) == UniqueFrom(s, {})

\* df['participant_id'] == pid, elementwise: NaN equals nothing
IdEq(a, b) == a.kind # "nan" /\ b.kind # "nan" /\ a.v = b.v

\* df[df['participant_id'] == pid]
RECURSIVE SelectRows(_, _)
SelectRows(t, pid) ==
    IF t = <<>> THEN <<>>
    ELSE IF IdEq(Head(t).participant_id, pid)
         THEN <<Head(t)>> \o SelectRows(Tail(t), pid)
         ELSE SelectRows(Tail(t), pid)

\* f'{pid}': numpy int64 1 prints as 1, float64 1.0 as 1.0, nan as nan
Format(pid) ==
    [digits |-> pid.v,
     tail |-> CASE pid.kind = "int" -> ""
                [] pid.kind = "float" -> ".0"
                [] pid.kind = "nan" -> "nan"]

\* a file name that also carries the number of the run
plot_path_PerRun(pid) == <<"participant_", Format(pid), run, ".png">>

\* os.path.join(output_dir, f'participant_{pid}.png')
plot_path(pid) == <<"participant_", Format(pid), ".png">>

\* plt.savefig(plot_path): creates the file or replaces its content
WriteFile(dir, name, content) ==
    [dir EXCEPT !.files =
        [n \in DOMAIN dir.files \cup {name} |->
            IF n = name THEN content ELSE dir.files[n]]]

\* How plot_and_save_graph(data, pid, ...) ends, io being whether the file
\* system accepts the write of line 78:
\*   "ParseError"  pd.to_datetime raises on line 34, before the figure
\*   "IndexError"  data["study_group"].values[0] on line 48, on an empty frame
\*   "OSError"     plt.savefig raises on line 78
\*   "none"        the file is written and the figure closed on line 79
PlotOutcome(d, io) ==
    IF \E i \in 1..Len(d) : ~d[i].timestamp.ok THEN "ParseError"
    ELSE IF Len(d) = 0 THEN "IndexError"
    ELSE IF ~io THEN "OSError"
    ELSE "none"

\* plt.subplots on line 45 was reached and plt.close on line 79 was not
LeavesFigureOpen(outcome) == outcome \in {"IndexError", "OSError"}

DriverCall(fn, pid, d, r) ==
    [fn |-> fn, batch |-> bi, pid |-> pid, data |-> d, ranges |-> r]

\* an exception nobody catches: it is swallowed and the loop goes on
Raise_Swallowed(e) ==
    /\ error' = e
    /\ pc' = pc
    /\ pidx' = IF pc = "participants" THEN pidx + 1 ELSE pidx
    /\ bi' = IF pc = "loop" THEN bi + 1 ELSE bi

\* an exception nobody catches: the interpreter prints it and exits
Raise(e) ==
    /\ error' = e
    /\ pc' = "aborted"
    /\ UNCHANGED <<bi, pidx>>

Init ==
    /\ disk \in Disks
    /\ outdir = [exists |-> FALSE, files |-> <<>>]
    /\ pc = "start"
    /\ bi = 1
    /\ df = NoTable
    /\ participants = <<>>
    /\ pidx = 1
    /\ figs = 0
    /\ calls = <<>>
    /\ printed = FALSE
    /\ run = 1
    /\ error = "none"
    /\ IdleCalc
    /\ IdleColors

\* os.makedirs(output_dir, exist_ok=True)
MakeDirs ==
    /\ pc = "start"
    /\ outdir' = [outdir EXCEPT !.exists = TRUE]
    /\ pc' = "loop"
    /\ UNCHANGED <<disk, bi, df, participants, pidx, figs, calls, printed, run, error>>

\* the file raises instead of being skipped
SkipMissing_Raises ==
    /\ pc = "loop"
    /\ bi <= Len(batch_files)
    /\ ~path_exists(batch_files[bi])
    /\ Raise("FileNotFoundError")
    /\ UNCHANGED <<disk, outdir, df, participants, figs, calls, printed, run>>

\* os.path.exists(batch_path) is false: the loop goes to the next file
SkipMissing ==
    /\ pc = "loop"
    /\ bi <= Len(batch_files)
    /\ ~path_exists(batch_files[bi])
    /\ bi' = bi + 1
    /\ UNCHANGED <<disk, outdir, pc, df, participants, pidx, figs, calls, printed,
                   run, error>>

\* pd.read_csv and unique() on a file that exists
LoadBatch ==
    /\ pc = "loop"
    /\ bi <= Len(batch_files)
    /\ path_exists(batch_files[bi])
    /\ IF disk[batch_files[bi]].state = "corrupt"
       THEN /\ Raise("ParserError")
            /\ UNCHANGED <<df, participants>>
       ELSE /\ df' = read_csv(disk[batch_files[bi]].table)
            /\ participants' = unique(Column(df', "participant_id"))
            /\ pidx' = 1
            /\ pc' = "participants"
            /\ UNCHANGED <<bi, error>>
    /\ UNCHANGED <<disk, outdir, figs, calls, printed, run>>

\* one iteration of `for pid in participants`: lines 105-109.  The image that
\* is written carries the title (pid, range values) and the analysis text
\* computed over the whole series with the default bounds (line 55).
ProcessParticipant ==
    /\ pc = "participants"
    /\ pidx <= Len(participants)
    /\ \E io \in BOOLEAN :
        LET pid == participants[pidx]
            participant_data == SelectRows(df, pid)
            r == calculate_glucose_ranges(participant_data)
            outcome == PlotOutcome(participant_data, io)
        IN  /\ calls' = calls \o
                    <<DriverCall("calculate_glucose_ranges", pid, participant_data, r),
                      DriverCall("plot_and_save_graph", pid, participant_data, r)>>
            /\ figs' = IF LeavesFigureOpen(outcome) THEN figs + 1 ELSE figs
            /\ IF outcome = "none"
               THEN /\ outdir' = WriteFile(outdir, plot_path(pid),
                                     [pid |-> pid, data |-> participant_data,
                                      ranges |-> r,
                                      analysis |-> calculate_glucose_analysis(
                                                       participant_data, 70, 140),
                                      run |-> run])
                    /\ pidx' = pidx + 1
                    /\ UNCHANGED <<pc, bi, error>>
               ELSE /\ Raise(outcome)
                    /\ UNCHANGED outdir
    /\ UNCHANGED <<disk, df, participants, printed, run>>

\* the inner loop is exhausted: next batch file
NextBatch ==
    /\ pc = "participants"
    /\ pidx > Len(participants)
    /\ bi' = bi + 1
    /\ pc' = "loop"
    /\ UNCHANGED <<disk, outdir, df, participants, pidx, figs, calls, printed, run,
                   error>>

\* print(f"Plots saved in {output_dir}")
Finish ==
    /\ pc = "loop"
    /\ bi > Len(batch_files)
    /\ printed' = TRUE
    /\ pc' = "done"
    /\ UNCHANGED <<disk, outdir, bi, df, participants, pidx, figs, calls, run, error>>

\* the script is executed again on the same files, in a new process
Rerun ==
    /\ pc = "done"
    /\ run < MaxRuns
    /\ run' = run + 1
    /\ pc' = "start"
    /\ bi' = 1
    /\ df' = NoTable
    /\ participants' = <<>>
    /\ pidx' = 1
    /\ figs' = 0
    /\ calls' = <<>>
    /\ printed' = FALSE
    /\ UNCHANGED <<disk, outdir, error>>

Next ==
    \/ MakeDirs /\ UNCHANGED <<calcVars, colorVars>>
    \/ SkipMissing /\ UNCHANGED <<calcVars, colorVars>>
    \/ LoadBatch /\ UNCHANGED <<calcVars, colorVars>>
    \/ ProcessParticipant /\ UNCHANGED <<calcVars, colorVars>>
    \/ NextBatch /\ UNCHANGED <<calcVars, colorVars>>
    \/ Finish /\ UNCHANGED <<calcVars, colorVars>>
    \/ Rerun /\ UNCHANGED <<calcVars, colorVars>>

Spec == Init /\ [][Next]_vars

-----------------------------------------------------------------------------
(* Properties of calculate_glucose_analysis, under SpecAnalysis *)

AddF(a, b) == Frac(a.num * b.den + b.num * a.den, a.den * b.den)

Glucose == Column(data, "blood_glucose_value")

NoMissingGlucose == \A i \in 1..Len(data) : ~Glucose[i].nan

BoolCount(b) == IF b THEN 1 ELSE 0

\* in how many of the three classes the function counts reading i
ClassesOf(i) ==
    BoolCount(InRangeRow(Glucose[i], low_range, high_range))
    + BoolCount(AboveRangeRow(Glucose[i], low_range, high_range))
    + BoolCount(BelowRangeRow(Glucose[i], low_range, high_range))

PartitionHolds ==
    /\ result.raised = "none"
    /\ \A i \in 1..Len(data) : ClassesOf(i) = 1
    /\ EqF(AddF(AddF(result.tir_percent, result.tar_percent), result.tbr_percent),
           Num(100))

\* C1 as stated: for a non-empty series without missing glucose values and
\* ANY bounds, every reading is in exactly one class and TIR + TAR + TBR = 100.
C1_AnyBounds ==
    (cpc = "returned" /\ Len(data) > 0 /\ NoMissingGlucose) => PartitionHolds

\* C1 amended: for a non-empty series without missing glucose values and
\* bounds with low_range <= high_range, every reading is counted in exactly
\* one of the three classes and TIR + TAR + TBR = 100.
C1_OrderedBounds ==
    (cpc = "returned" /\ Len(data) > 0 /\ NoMissingGlucose
        /\ low_range <= high_range) => PartitionHolds

\* a returned call on a series without missing values that has readings on
\* both boundaries, below and above the range
C1_Witness ==
    /\ cpc = "returned"
    /\ NoMissingGlucose
    /\ low_range < high_range
    /\ \E i, j, k, l \in 1..Len(data) :
          /\ Glucose[i] = Num(low_range) /\ Glucose[j] = Num(high_range)
          /\ Glucose[k].num < low_range /\ Glucose[l].num > high_range

\* the readings that are present and satisfy P, counted on the raw values
Readings(P(_)) == {i \in 1..Len(data) : ~Glucose[i].nan /\ P(Glucose[i].num)}

IsPercentOf(p, S) == ~p.nan /\ p.num * Len(data) = 100 * Cardinality(S) * p.den

\* C2: a reading v is below range iff v < low_range, in range iff
\* low_range <= v <= high_range (both bounds inclusive), above range iff
\* v > high_range; [50,70,90,140,160] with bounds 70/140 gives TBR 20%,
\* TIR 60%, TAR 20%.
C2_Classification ==
    (cpc = "returned" /\ Len(data) > 0) =>
        /\ result.raised = "none"
        /\ IsPercentOf(result.tbr_percent, Readings(LAMBDA v : v < low_range))
        /\ IsPercentOf(result.tir_percent,
                       Readings(LAMBDA v : low_range <= v /\ v <= high_range))
        /\ IsPercentOf(result.tar_percent, Readings(LAMBDA v : v > high_range))
        /\ (/\ Glucose = <<Num(50), Num(70), Num(90), Num(140), Num(160)>>
            /\ low_range = 70 /\ high_range = 140)
           => /\ EqF(result.tbr_percent, Num(20))
              /\ EqF(result.tir_percent, Num(60))
              /\ EqF(result.tar_percent, Num(20))

\* the call on [50,70,90,140,160] with the default bounds has returned
C2_Witness ==
    /\ cpc = "returned"
    /\ Glucose = <<Num(50), Num(70), Num(90), Num(140), Num(160)>>
    /\ low_range = 70 /\ high_range = 140
    /\ result.raised = "none"

-----------------------------------------------------------------------------
(* Properties of calculate_glucose_ranges, under SpecRanges *)

RangesOrdered ==
    /\ Le(result.bg_min, result.low_value)
    /\ Le(result.low_value, result.high_value)
    /\ Le(result.high_value, result.bg_max)

\* C3 as stated: for EVERY non-empty series bg_min <= low <= high <= bg_max.
C3_EveryNonEmptySeries ==
    (cpc = "returned" /\ Len(data) > 0) => RangesOrdered

\* C3 amended: for every series with at least one glucose value that is not
\* missing, bg_min <= low <= high <= bg_max (low the 5th, high the 95th
\* percentile, bg_min / bg_max the minimum and maximum of the values).
C3_SomeValuePresent ==
    (cpc = "returned" /\ \E i \in 1..Len(data) : ~Glucose[i].nan) => RangesOrdered

\* a returned call on a series with a missing and several different values,
\* where both percentiles are interpolated strictly inside (bg_min, bg_max)
C3_Witness ==
    /\ cpc = "returned"
    /\ \E i \in 1..Len(data) : Glucose[i].nan
    /\ Lt(result.bg_min, result.low_value)
    /\ Lt(result.low_value, result.high_value)
    /\ Lt(result.high_value, result.bg_max)

-----------------------------------------------------------------------------
(* Properties of the day colours, under SpecColors *)

\* C9: the colours of the distinct dates of a series are pairwise different,
\* for every number of dates n >= 1, including n > 20.
C9_DistinctColors ==
    \A i, j \in 1..Len(plotted) :
        i # j => plotted[i].color # plotted[j].color

-----------------------------------------------------------------------------
(* Properties of the batch driver, under Spec *)

ExistingPaths == {p \in BatchPaths : disk[p].state # "missing"}

CsvRows(p) == {disk[p].table[i] : i \in 1..Len(disk[p].table)}

\* the participant ids written in the batch files that exist
IdsOnDisk ==
    {r.participant_id.v :
        r \in {x \in UNION {CsvRows(p) : p \in ExistingPaths} :
                  x.participant_id.kind = "int"}}

PngName(n) == <<"participant_", [digits |-> n, tail |-> ""], ".png">>

PlotFiles == DOMAIN outdir.files

\* C4: after a run that completes, the output directory holds exactly one
\* file participant_<pid>.png per distinct participant id of the existing
\* batch files, named by the id alone; a second run rewrites every one of
\* them and leaves the same set of files.
C4_OneFilePerParticipant ==
    pc = "done" =>
        /\ PlotFiles = {PngName(n) : n \in IdsOnDisk}
        /\ Cardinality(PlotFiles) = Cardinality(IdsOnDisk)
        /\ \A f \in PlotFiles :
              /\ outdir.files[f].run = run
              /\ f = PngName(outdir.files[f].pid.v)

\* a second run has completed, over two batch files that share a participant
C4_Witness ==
    /\ pc = "done"
    /\ run = 2
    /\ Cardinality(PlotFiles) = 2
    /\ \E p, q \in ExistingPaths :
          /\ p # q
          /\ \E r \in CsvRows(p), t \in CsvRows(q) :
                r.participant_id = t.participant_id

\* C5: a batch file that does not exist is skipped: no error comes from it,
\* nothing is computed or written for it, every plot belongs to a participant
\* of a file that exists, and a run that reaches the end prints the
\* completion message with no error.
C5_MissingFilesSkipped ==
    /\ error # "none" => (bi <= Len(batch_files) /\ batch_files[bi] \in ExistingPaths)
    /\ \A k \in 1..Len(calls) : batch_files[calls[k].batch] \in ExistingPaths
    /\ \A f \in PlotFiles : outdir.files[f].pid.v \in IdsOnDisk
    /\ pc = "done" => (printed /\ error = "none" /\ bi = Len(batch_files) + 1)

\* the completion message is printed with plots on disk, two batch files
\* existing and the other six missing
C5_Witness ==
    /\ pc = "done"
    /\ printed
    /\ Cardinality(ExistingPaths) = 2
    /\ Cardinality(BatchPaths \ ExistingPaths) = 6
    /\ PlotFiles # {}

\* C6: no figure is left open once a call of the plotter has ended, whether
\* it returned or raised.
C6_FigureReleased == figs = 0

TableRead(b) == read_csv(disk[batch_files[b]].table)

\* the first row of table t that carries participant id
FirstSeen(t, id) ==
    CHOOSE i \in 1..Len(t) :
        /\ t[i].participant_id = id
        /\ \A j \in 1..(i - 1) : t[j].participant_id # id

RangeCalls == {k \in 1..Len(calls) : k % 2 = 1}

\* C7: batch files are processed in list order and the participants of a
\* file in first-seen row order; for each participant the range calculator
\* runs on that participant's rows, then the plotter with the same rows and
\* the four values just computed, one participant after the other.
C7_CallOrder ==
    /\ Len(calls) % 2 = 0
    /\ \A k \in RangeCalls :
          /\ calls[k].fn = "calculate_glucose_ranges"
          /\ calls[k + 1].fn = "plot_and_save_graph"
          /\ calls[k + 1].batch = calls[k].batch
          /\ calls[k + 1].pid = calls[k].pid
          /\ calls[k + 1].data = calls[k].data
          /\ calls[k + 1].ranges = calls[k].ranges
          /\ LET t == TableRead(calls[k].batch)
             IN  /\ \E i \in 1..Len(t) : t[i].participant_id = calls[k].pid
                 /\ calls[k].pid.kind # "nan" =>
                       /\ {calls[k].data[i] : i \in 1..Len(calls[k].data)}
                            = {t[i] : i \in {j \in 1..Len(t) :
                                               t[j].participant_id = calls[k].pid}}
                       /\ \A i \in 1..Len(calls[k].data) :
                             Le(calls[k].ranges.bg_min,
                                calls[k].data[i].blood_glucose_value)
                             /\ Ge(calls[k].ranges.bg_max,
                                   calls[k].data[i].blood_glucose_value)
    /\ \A k, m \in RangeCalls :
          k < m =>
             \/ calls[k].batch < calls[m].batch
             \/ /\ calls[k].batch = calls[m].batch
                /\ FirstSeen(TableRead(calls[k].batch), calls[k].pid)
                     < FirstSeen(TableRead(calls[m].batch), calls[m].pid)
    /\ pc = "done" =>
          \A b \in 1..Len(batch_files) : \A i \in 1..Len(TableRead(b)) :
              \E k \in RangeCalls :
                  calls[k].batch = b /\ calls[k].pid = TableRead(b)[i].participant_id

\* both participants of a file whose ids first appear in descending order
\* have been plotted, after a participant of an earlier file
C7_Witness ==
    /\ Len(calls) >= 6
    /\ \E k \in RangeCalls :
          /\ k + 2 \in RangeCalls
          /\ calls[k].batch = calls[k + 2].batch
          /\ calls[k].pid.v > calls[k + 2].pid.v
          /\ \E m \in RangeCalls : calls[m].batch < calls[k].batch

\* C8: an error raised while loading a file or processing a participant ends
\* the run: the step that raises writes no file and prints nothing, and no
\* step follows it; the plot files written before stay as they are.
C8_ErrorAbortsRun ==
    [][/\ error = "none"
       /\ error' # "none" =>
             /\ pc' = "aborted"
             /\ outdir' = outdir
             /\ printed' = FALSE
             /\ calls' = calls \/ Len(calls') = Len(calls) + 2]_vars

\* the run has aborted with a plot already written and a later batch file,
\* which exists, never loaded
C8_Witness ==
    /\ pc = "aborted"
    /\ error # "none"
    /\ ~printed
    /\ PlotFiles # {}
    /\ \E b \in (bi + 1)..Len(batch_files) : batch_files[b] \in ExistingPaths

\* C10: every series the driver hands to calculate_glucose_ranges and
\* plot_and_save_graph has at least one row.
C10_SeriesNonEmpty == \A k \in 1..Len(calls) : Len(calls[k].data) > 0

====
